---- MODULE Spec2Model ----
(***************************************************************************)
(* DuoVR server (src/server.js, second server definition, lines 425-2167): *)
(* the upload / processing / streaming pipeline.  The repository (four     *)
(* Sequelize models), the object store (one bucket) and the media tool are *)
(* collaborators; every call to one of them either returns or raises.      *)
(* A request is one the middleware (body parsers, rate limiters) has       *)
(* passed to its handler.                                                  *)
(***************************************************************************)
EXTENDS Integers, Sequences, FiniteSets, TLC

(***************************************************************************)
(* Bounds of the model.                                                    *)
(***************************************************************************)
MaxFiles == 1
MaxJobs == 2
PipelineJobs == 1
MaxSize == 11
MaxViews == 1
UploadSize == 2

(***************************************************************************)
(* JavaScript values used by the handlers.                                 *)
(***************************************************************************)
\* A JS number: an integer or NaN.
Num(n) == [nan |-> FALSE, v |-> n]
NaN == [nan |-> TRUE, v |-> 0]
JsSub(a, b) == IF a.nan \/ b.nan THEN NaN ELSE Num(a.v - b.v)
JsAdd(a, b) == IF a.nan \/ b.nan THEN NaN ELSE Num(a.v + b.v)

Digits == <<"0", "1", "2", "3", "4", "5", "6", "7", "8", "9">>
IsDigit(c) == \E i \in 1..10 : Digits[i] = c
DigitVal(c) == (CHOOSE i \in 1..10 : Digits[i] = c) - 1

\* Number -> decimal text (template-literal interpolation of a number).
RECURSIVE FormatNat(_)
FormatNat(n) == IF n < 10 THEN <<Digits[n + 1]>>
                ELSE FormatNat(n \div 10) \o <<Digits[(n % 10) + 1]>>
FormatNum(x) == IF x.nan THEN <<"N", "a", "N">>
                ELSE IF x.v < 0 THEN <<"-">> \o FormatNat(-x.v)
                ELSE FormatNat(x.v)

\* parseInt(text, 10): optional blanks, optional sign, then the longest run
\* of decimal digits; NaN when there is no digit.
RECURSIVE SkipBlanks(_)
SkipBlanks(s) == IF s # <<>> /\ Head(s) = " " THEN SkipBlanks(Tail(s)) ELSE s
RECURSIVE DigitRun(_, _)
DigitRun(s, acc) == IF s # <<>> /\ IsDigit(Head(s))
                    THEN DigitRun(Tail(s), acc * 10 + DigitVal(Head(s)))
                    ELSE acc
ParseInt(text) ==
    LET s == SkipBlanks(text)
        neg == s # <<>> /\ Head(s) = "-"
        t == IF s # <<>> /\ Head(s) \in {"-", "+"} THEN Tail(s) ELSE s
    IN IF t # <<>> /\ IsDigit(Head(t))
       THEN Num(IF neg THEN -DigitRun(t, 0) ELSE DigitRun(t, 0))
       ELSE NaN

\* String.prototype.replace(/bytes=/, ""): the first occurrence is removed.
BytesEq == <<"b", "y", "t", "e", "s", "=">>
StartsWith(s, p) == Len(s) >= Len(p) /\ SubSeq(s, 1, Len(p)) = p
RECURSIVE RemoveFirst(_, _)
RemoveFirst(s, p) == IF s = <<>> THEN <<>>
                     ELSE IF StartsWith(s, p) THEN SubSeq(s, Len(p) + 1, Len(s))
                     ELSE <<Head(s)>> \o RemoveFirst(Tail(s), p)

\* String.prototype.split("-"): the parts between the dashes.
RECURSIVE SplitDash(_, _)
SplitDash(s, cur) == IF s = <<>> THEN <<cur>>
                     ELSE IF Head(s) = "-" THEN <<cur>> \o SplitDash(Tail(s), <<>>)
                     ELSE SplitDash(Tail(s), Append(cur, Head(s)))

\* parts[1] ? parseInt(parts[1], 10) : fileSize - 1 -- a missing or empty
\* second part is falsy, every other text (also "0") is truthy.
RangeEndMutZeroFalsy(parts, fileSize) ==
    IF Len(parts) >= 2 /\ parts[2] # <<>> /\ ParseInt(parts[2]) # Num(0)
    THEN ParseInt(parts[2]) ELSE JsSub(fileSize, Num(1))
RangeEnd(parts, fileSize) ==
    IF Len(parts) >= 2 /\ parts[2] # <<>>
    THEN ParseInt(parts[2]) ELSE JsSub(fileSize, Num(1))

parseRangeHeader(range, fileSize) ==
    LET parts == SplitDash(RemoveFirst(range, BytesEq), <<>>)
    IN [start |-> ParseInt(parts[1]), end |-> RangeEnd(parts, fileSize)]

\* The header a client writes for the byte interval [s, e].
RangeHeader(s, e) == BytesEq \o FormatNat(s) \o <<"-">> \o FormatNat(e)
\* `bytes ${start}-${end}/${fileSize}`
ContentRange(start, end, fileSize) ==
    <<"b", "y", "t", "e", "s", " ">> \o FormatNum(start) \o <<"-">>
        \o FormatNum(end) \o <<"/">> \o FormatNum(fileSize)

(***************************************************************************)
(* Object keys.  A key is a sequence of tokens; a token that starts with   *)
(* "." and holds no "/" is an extension, so /\.[^/.]+$/ matches exactly a  *)
(* trailing extension token.                                               *)
(***************************************************************************)
ExtTokens == {".mp4", ".jpg"}
\* key.replace(/\.[^/.]+$/, suffix)
ReplaceExt(key, suffix) ==
    IF key # <<>> /\ key[Len(key)] \in ExtTokens
    THEN SubSeq(key, 1, Len(key) - 1) \o suffix
    ELSE key

Quals == {"720p", "480p"}
QualityToken(q) == IF q = "720p" THEN "_720p" ELSE "_480p"
\* inputFile.filePath.replace(/\.[^/.]+$/, `_${job.targetQuality}.mp4`)
OutputPath(filePath, q) == ReplaceExt(filePath, <<QualityToken(q), ".mp4">>)
\* fileName.replace(/\.[^/.]+$/, '_thumbnail.jpg')
ThumbnailPath(filePath) == ReplaceExt(filePath, <<"_thumbnail", ".jpg">>)

\* `${prefix}/${timestamp}-${randomStr}-${sanitizedName}.${extension}`: the
\* token stamp stands for `${timestamp}-${randomStr}`, which nothing keeps
\* from repeating (same millisecond, same six random characters).
generateUniqueFileName(stamp) == <<"360-videos/", stamp, "-clip", ".mp4">>

(***************************************************************************)
(* The qualityLevels column: a JSON value.  In memory it is null, an array *)
(* or an object, each with named properties (entries); JSON.stringify of   *)
(* an array writes its indexed elements only, so named properties set on   *)
(* an array are not persisted.                                             *)
(***************************************************************************)
NoEntries == [q \in {} |-> <<>>]
JsNull == [kind |-> "null", entries |-> NoEntries]
JsArray == [kind |-> "array", entries |-> NoEntries]
JsObject == [kind |-> "object", entries |-> NoEntries]
\* value[q] is truthy (value not null)
HasEntry(value, q) == q \in DOMAIN value.entries
\* value[q] = { path, createdAt }
SetEntry(value, q, path) ==
    [value EXCEPT !.entries = [x \in (DOMAIN value.entries) \cup {q} |->
                                   IF x = q THEN path ELSE value.entries[x]]]
\* value || {}
OrEmptyObject(value) == IF value.kind = "null" THEN JsObject ELSE value
\* what the JSON column holds after the value is written and read back
Persisted(value) == IF value.kind = "array" THEN JsArray ELSE value

(***************************************************************************)
(* State.                                                                  *)
(***************************************************************************)
VARIABLES
    dbConfigured,  \* FileMetadata, VideoAnalytics, TranscodingJob, UserSession are defined
    files,         \* FileMetadata rows, the id of a row is its index
    jobs,          \* TranscodingJob rows, the id of a row is its index
    sessions,      \* sessionId of the UserSession rows
    events,        \* VideoAnalytics rows
    objects,       \* the bucket: a set of [key, size]
    vidTask,       \* processVideoInBackground per FileMetadata row
    jobTask,       \* processTranscodingJob per TranscodingJob row
    tails,         \* the view tracking that follows each streamed response
    call,          \* the last call of a helper function: arguments and value
    resp           \* the last response sent

vars == <<dbConfigured, files, jobs, sessions, events, objects, vidTask,
          jobTask, tails, call, resp>>

NoKey == <<>>
NoResp == [ep |-> "none", status |-> 0]
NoCall == [fn |-> "none"]

\* FileMetadata.create at upload time: qualityLevels gets defaultValue [].
NewFileRecord(path, duration) ==
    [filePath |-> path, processingStatus |-> "pending",
     qualityLevels |-> JsArray, viewCount |-> 0, thumbnailPath |-> NoKey,
     duration |-> duration]

\* A row of the table this process did not create: the column is nullable,
\* and the handlers read it as `qualityLevels || {}`.
SeedKey == <<"uploads/", "old", ".mp4">>
SeedRecord ==
    [filePath |-> SeedKey, processingStatus |-> "completed",
     qualityLevels |-> JsNull, viewCount |-> 0, thumbnailPath |-> NoKey,
     duration |-> 4]

Exists(key) == \E o \in objects : o.key = key
SizeOf(key) == (CHOOSE o \in objects : o.key = key).size
\* a finished upload replaces the object under the key
StorePut(objs, key, size) ==
    {o \in objs : o.key # key} \cup {[key |-> key, size |-> size]}

\* FileMetadata.findOne({ where: { filePath } }): one of the matching rows
\* (no ORDER BY), 0 when there is none.
FindOne(key) ==
    IF \E i \in 1..Len(files) : files[i].filePath = key
    THEN {i \in 1..Len(files) : files[i].filePath = key}
    ELSE {0}

Init ==
    /\ dbConfigured \in BOOLEAN
    /\ \E seeded \in BOOLEAN :
         /\ files = IF dbConfigured /\ seeded THEN <<SeedRecord>> ELSE <<>>
         /\ vidTask = IF dbConfigured /\ seeded THEN <<"none">> ELSE <<>>
         /\ objects = IF seeded THEN {[key |-> SeedKey, size |-> MaxSize]} ELSE {}
    /\ jobs = <<>>
    /\ jobTask = <<>>
    /\ sessions = {}
    /\ events = {}
    /\ tails = <<>>
    /\ call = NoCall
    /\ resp = NoResp

(***************************************************************************)
(* processTranscodingJob(jobId).  A task's pc names the call it awaits.    *)
(***************************************************************************)
JobTryPcs == {"find", "markProcessing", "signUrl", "encode", "upload",
              "saveLevels", "markCompleted"}
\* error.message of the error the awaited call raises
ErrorText(pc) ==
    IF pc \in {"find", "markProcessing", "saveLevels", "markCompleted"}
    THEN "repository"
    ELSE IF pc = "encode" THEN "Transcoding failed"
    ELSE "store"

NoLevels == [kind |-> "none", entries |-> NoEntries]

\* findByPk(jobId, include FileMetadata) returns: the instance of the owning
\* row is read here and kept for the rest of the task.
JobFind(j) ==
    /\ jobTask[j].pc = "find"
    /\ jobTask' = [jobTask EXCEPT ![j].pc = "markProcessing",
                     ![j].levels = files[jobs[j].fileId].qualityLevels]
    /\ UNCHANGED <<dbConfigured, files, jobs, sessions, events, objects,
                   vidTask, resp>>

\* job.update({ status: 'processing', startedAt }) returns
JobMarkProcessing(j) ==
    /\ jobTask[j].pc = "markProcessing"
    /\ jobs' = [jobs EXCEPT ![j].status = "processing"]
    /\ jobTask' = [jobTask EXCEPT ![j].pc = "signUrl"]
    /\ UNCHANGED <<dbConfigured, files, sessions, events, objects, vidTask, resp>>

\* generateSignedUrl(inputFile.filePath) returns; transcodeVideo starts
JobSignUrl(j) ==
    /\ jobTask[j].pc = "signUrl"
    /\ jobTask' = [jobTask EXCEPT ![j].pc = "encode",
                                  ![j].runs = jobTask[j].runs + 1]
    /\ UNCHANGED <<dbConfigured, files, jobs, sessions, events, objects,
                   vidTask, resp>>

\* transcodeVideo resolves; the output is read and its upload starts
JobEncode(j) ==
    /\ jobTask[j].pc = "encode"
    /\ jobTask' = [jobTask EXCEPT ![j].pc = "upload"]
    /\ UNCHANGED <<dbConfigured, files, jobs, sessions, events, objects,
                   vidTask, resp>>

\* uploadFile(outputPath) resolves
JobUpload(j) ==
    /\ jobTask[j].pc = "upload"
    /\ objects' = StorePut(objects,
                     OutputPath(files[jobs[j].fileId].filePath,
                                jobs[j].targetQuality), 1)
    /\ jobTask' = [jobTask EXCEPT ![j].pc = "saveLevels"]
    /\ UNCHANGED <<dbConfigured, files, jobs, sessions, events, vidTask, resp>>

\* The columns inputFile.update({ qualityLevels }) writes.
LevelsUpdateMutWritesStatus(rec, value) ==
    [rec EXCEPT !.qualityLevels = value, !.processingStatus = "processing"]
LevelsUpdate(rec, value) == [rec EXCEPT !.qualityLevels = value]

\* qualityLevels = inputFile.qualityLevels || {}; qualityLevels[q] = {...};
\* inputFile.update({ qualityLevels }) returns.  The value comes from the
\* instance read by JobFind.  A value mutated in place is the instance's own
\* value, so whether the column is written depends on the change detection
\* of the Sequelize release in use: both outcomes are modelled.
JobSaveLevels(j) ==
    /\ jobTask[j].pc = "saveLevels"
    /\ LET f == jobs[j].fileId
           q == jobs[j].targetQuality
           value == SetEntry(OrEmptyObject(jobTask[j].levels), q,
                             OutputPath(files[f].filePath, q))
       IN \E written \in BOOLEAN :
            /\ jobTask[j].levels.kind = "null" => written
            /\ files' = IF written
                        THEN [files EXCEPT ![f] = LevelsUpdate(files[f], Persisted(value))]
                        ELSE files
    /\ jobTask' = [jobTask EXCEPT ![j].pc = "markCompleted", ![j].levels = NoLevels]
    /\ UNCHANGED <<dbConfigured, jobs, sessions, events, objects, vidTask, resp>>

\* job.update({ status: 'completed', outputPath, progress: 100 }) returns
JobMarkCompleted(j) ==
    /\ jobTask[j].pc = "markCompleted"
    /\ jobs' = [jobs EXCEPT ![j].status = "completed",
                  ![j].outputPath = OutputPath(files[jobs[j].fileId].filePath,
                                               jobs[j].targetQuality)]
    /\ jobTask' = [jobTask EXCEPT ![j].pc = "done"]
    /\ UNCHANGED <<dbConfigured, files, sessions, events, objects, vidTask, resp>>

\* The awaited call raises: control enters the catch block, which issues
\* TranscodingJob.update({ status: 'failed', errorMessage }, { where: { id } }).
JobRaise(j) ==
    /\ jobTask[j].pc \in JobTryPcs
    /\ jobTask' = [jobTask EXCEPT ![j].pc = "catch", ![j].levels = NoLevels,
                                  ![j].err = ErrorText(jobTask[j].pc)]
    /\ UNCHANGED <<dbConfigured, files, jobs, sessions, events, objects,
                   vidTask, resp>>

\* The update of the catch block returns.
JobCatch(j) ==
    /\ jobTask[j].pc = "catch"
    /\ jobs' = [jobs EXCEPT ![j].status = "failed",
                            ![j].errorMessage = jobTask[j].err]
    /\ jobTask' = [jobTask EXCEPT ![j].pc = "done", ![j].err = ""]
    /\ UNCHANGED <<dbConfigured, files, sessions, events, objects, vidTask, resp>>

\* The update of the catch block raises: nothing catches it, the promise of
\* the task rejects.
JobCatchRaise(j) ==
    /\ jobTask[j].pc = "catch"
    /\ jobTask' = [jobTask EXCEPT ![j].pc = "escaped", ![j].err = ""]
    /\ UNCHANGED <<dbConfigured, files, jobs, sessions, events, objects,
                   vidTask, resp>>

processTranscodingJob(j) ==
    \/ JobFind(j)
    \/ JobMarkProcessing(j)
    \/ JobSignUrl(j)
    \/ JobEncode(j)
    \/ JobUpload(j)
    \/ JobSaveLevels(j)
    \/ JobMarkCompleted(j)
    \/ JobRaise(j)
    \/ JobCatch(j)
    \/ JobCatchRaise(j)

(***************************************************************************)
(* POST /files/:fileName/transcode                                         *)
(***************************************************************************)
NewJob(fileId, quality) ==
    [fileId |-> fileId, targetQuality |-> quality, status |-> "queued",
     outputPath |-> NoKey, errorMessage |-> ""]
NewJobTask == [pc |-> "find", levels |-> NoLevels, runs |-> 0, err |-> ""]

\* the body of the response that follows TranscodingJob.create and the start
\* of processTranscodingJob(job.id), which is not awaited
TranscodeCreatedMutOmitsJob(id, job) ==
    [message |-> "Transcoding job created", jobId |-> 0, status |-> "queued"]
TranscodeCreated(id, job) ==
    [message |-> "Transcoding job created", jobId |-> id, status |-> "queued"]

\* fileRecord.qualityLevels && fileRecord.qualityLevels[quality]
QualityExistsMutNever(rec, quality) == FALSE
QualityExists(rec, quality) ==
    rec.qualityLevels.kind # "null" /\ HasEntry(rec.qualityLevels, quality)

\* fail: 0 no call raises, 1 findOne raises, 2 TranscodingJob.create raises
TranscodeRequest(key, quality, fail) ==
    LET answer(status, out) ==
            /\ resp' = [ep |-> "transcode", status |-> status, out |-> out]
            /\ UNCHANGED <<dbConfigured, files, jobs, sessions, events,
                           objects, vidTask, jobTask>>
    IN IF ~dbConfigured
       THEN answer(503, [error |-> "Transcoding service not available"])
       ELSE IF fail = 1
       THEN answer(500, [error |-> "repository"])
       ELSE \E f \in FindOne(key) :
              IF f = 0
              THEN answer(404, [error |-> "File not found in database"])
              ELSE IF QualityExists(files[f], quality)
              THEN answer(200, [message |-> "Quality level already exists",
                                status |-> "completed",
                                outputPath |-> files[f].qualityLevels.entries[quality]])
              ELSE IF fail = 2
              THEN answer(500, [error |-> "repository"])
              ELSE /\ jobs' = Append(jobs, NewJob(f, quality))
                   /\ jobTask' = Append(jobTask, NewJobTask)
                   /\ resp' = [ep |-> "transcode", status |-> 200,
                               out |-> TranscodeCreated(Len(jobs) + 1,
                                                        jobs'[Len(jobs) + 1])]
                   /\ UNCHANGED <<dbConfigured, files, sessions, events,
                                  objects, vidTask>>

(***************************************************************************)
(* processVideoInBackground(fileId, filePath, quality)                     *)
(***************************************************************************)
VidTryPcs == {"find", "markProcessing", "signUrl", "markCompleted"}

\* The column fileRecord.update({ processingStatus }) writes.
StatusUpdate(rec, status) == [rec EXCEPT !.processingStatus = status]

SetVid(f, pc) ==
    /\ vidTask' = [vidTask EXCEPT ![f] = pc]
    /\ UNCHANGED <<dbConfigured, jobs, sessions, events, jobTask, resp>>

\* FileMetadata.findByPk(fileId) returns the row
VidFind(f) ==
    /\ vidTask[f] = "find"
    /\ SetVid(f, "markProcessing")
    /\ UNCHANGED <<files, objects>>

\* fileRecord.update({ processingStatus: 'processing' }) returns
VidMarkProcessing(f) ==
    /\ vidTask[f] = "markProcessing"
    /\ files' = [files EXCEPT ![f] = StatusUpdate(files[f], "processing")]
    /\ SetVid(f, "signUrl")
    /\ UNCHANGED objects

\* generateSignedUrl returns; `if (!fileRecord.duration)` chooses the branch
VidSignUrl(f) ==
    /\ vidTask[f] = "signUrl"
    /\ SetVid(f, IF files[f].duration = 0 THEN "extract" ELSE "thumbnail")
    /\ UNCHANGED <<files, objects>>

\* The step that follows an inner try block: its catch logs the error and
\* does not rethrow, so the step is the same whether the block raised or not.
AfterBestEffortMutRethrows(raised, next) ==
    IF raised THEN "catchFind" ELSE next
AfterBestEffort(raised, next) == next

\* The inner try around extractMetadata and fileRecord.update({ duration,
\* ... }): a raise of either is logged and the task goes on.
VidExtract(f, duration, ok) ==
    /\ vidTask[f] = "extract"
    /\ files' = IF ok THEN [files EXCEPT ![f].duration = duration] ELSE files
    /\ SetVid(f, AfterBestEffort(~ok, "thumbnail"))
    /\ UNCHANGED objects

\* The inner try around generateThumbnail, readFile, uploadFile and
\* fileRecord.update({ thumbnailPath }): a raise of any is logged and the
\* task goes on.  outcome names how far the block got.
VidThumbnail(f, outcome) ==
    /\ vidTask[f] = "thumbnail"
    /\ LET thumbnailPath == ThumbnailPath(files[f].filePath)
       IN /\ objects' = IF outcome \in {"stored", "saved"}
                        THEN StorePut(objects, thumbnailPath, 1)
                        ELSE objects
          /\ files' = IF outcome = "saved"
                      THEN [files EXCEPT ![f].thumbnailPath = thumbnailPath]
                      ELSE files
    /\ SetVid(f, AfterBestEffort(outcome # "saved", "markCompleted"))

\* fileRecord.update({ processingStatus: 'completed', isProcessed }) returns
VidMarkCompleted(f) ==
    /\ vidTask[f] = "markCompleted"
    /\ files' = [files EXCEPT ![f] = StatusUpdate(files[f], "completed")]
    /\ SetVid(f, "done")
    /\ UNCHANGED objects

\* An awaited call of the outer try raises: the catch block starts with
\* FileMetadata.findByPk(fileId).
VidRaise(f) ==
    /\ vidTask[f] \in VidTryPcs
    /\ SetVid(f, "catchFind")
    /\ UNCHANGED <<files, objects>>

\* findByPk of the catch block returns the row
VidCatchFind(f) ==
    /\ vidTask[f] = "catchFind"
    /\ SetVid(f, "catchUpdate")
    /\ UNCHANGED <<files, objects>>

\* fileRecord.update({ processingStatus: 'failed' }) of the catch block returns
VidCatchUpdate(f) ==
    /\ vidTask[f] = "catchUpdate"
    /\ files' = [files EXCEPT ![f] = StatusUpdate(files[f], "failed")]
    /\ SetVid(f, "done")
    /\ UNCHANGED objects

\* A call of the catch block raises: the promise of the task rejects.
VidCatchRaise(f) ==
    /\ vidTask[f] \in {"catchFind", "catchUpdate"}
    /\ SetVid(f, "escaped")
    /\ UNCHANGED <<files, objects>>

processVideoInBackground(f) ==
    \/ VidFind(f)
    \/ VidMarkProcessing(f)
    \/ VidSignUrl(f)
    \/ \E ok \in BOOLEAN : VidExtract(f, 4, ok)
    \/ \E outcome \in {"none", "stored", "saved"} : VidThumbnail(f, outcome)
    \/ VidMarkCompleted(f)
    \/ VidRaise(f)
    \/ VidCatchFind(f)
    \/ VidCatchUpdate(f)
    \/ VidCatchRaise(f)

(***************************************************************************)
(* POST /files/upload and POST /files/generate-upload-url                  *)
(***************************************************************************)
MimeTypes == {"video/mp4", "video/quicktime", "video/x-msvideo", "video/avi",
              "video/mov", "video/x-ms-wmv", "video/webm"}
\* file.mimetype.toLowerCase() is in validTypes; the model's types are
\* lower-case already
isValidVideoFileMutAcceptsAll(mimetype) == TRUE
isValidVideoFile(mimetype) == mimetype \in MimeTypes
IsValidUploadUrlType(fileType) == fileType \in MimeTypes \ {"video/x-ms-wmv"}

\* fail: 0 no call raises, 1 extractMetadata raises, 2 uploadFile raises,
\*       3 FileMetadata.create raises
UploadRequestWithin(maxRows, hasFile, mimetype, quality, duration, stamp, fail) ==
    LET destination == generateUniqueFileName(stamp)
        answer(status, out) ==
            /\ resp' = [ep |-> "upload", status |-> status, out |-> out]
            /\ UNCHANGED <<dbConfigured, jobs, sessions, events, jobTask>>
        uploaded(fileId) == [message |-> "Video uploaded successfully",
                             fileId |-> fileId, fileName |-> destination,
                             processingStatus |-> "pending"]
    IN IF ~hasFile
       THEN answer(400, [error |-> "No video file uploaded"])
            /\ UNCHANGED <<files, objects, vidTask>>
       ELSE IF ~isValidVideoFile(mimetype)
       THEN answer(400, [error |-> "Invalid file type"])
            /\ UNCHANGED <<files, objects, vidTask>>
       ELSE IF fail \in {1, 2}
       THEN answer(500, [error |-> "Failed to upload file"])
            /\ UNCHANGED <<files, objects, vidTask>>
       ELSE /\ objects' = StorePut(objects, destination, UploadSize)
            /\ IF dbConfigured /\ fail # 3
               THEN /\ Len(files) < maxRows
                    /\ files' = Append(files, NewFileRecord(destination, duration))
                    /\ vidTask' = Append(vidTask,
                                    IF quality \notin {"", "original"}
                                    THEN "find" ELSE "none")
                    /\ answer(200, uploaded(Len(files) + 1))
               ELSE /\ UNCHANGED <<files, vidTask>>
                    /\ answer(200, uploaded(0))

UploadRequest(hasFile, mimetype, quality, duration, stamp, fail) ==
    UploadRequestWithin(MaxFiles, hasFile, mimetype, quality, duration, stamp,
                        fail)

\* maxSize = 8 * 1024 * 1024 * 1024 bytes, counted in MiB
MaxUploadMiB == 8192

\* fail: 0 no call raises, 1 getSignedUrl raises, 3 FileMetadata.create raises
GenerateUploadUrlRequest(hasName, fileType, fileSize, stamp, fail) ==
    LET destination == generateUniqueFileName(stamp)
        answer(status, out) ==
            /\ resp' = [ep |-> "generate-upload-url", status |-> status,
                        out |-> out]
            /\ UNCHANGED <<dbConfigured, jobs, sessions, events, objects,
                           jobTask>>
        issued(fileId) == [destination |-> destination, fileId |-> fileId,
                           contentType |-> fileType]
    IN IF ~hasName \/ fileType = ""
       THEN answer(400, [error |-> "fileName and fileType are required"])
            /\ UNCHANGED <<files, vidTask>>
       ELSE IF ~IsValidUploadUrlType(fileType)
       THEN answer(400, [error |-> "Invalid file type"])
            /\ UNCHANGED <<files, vidTask>>
       ELSE IF fileSize > MaxUploadMiB
       THEN answer(400, [error |-> "File too large"])
            /\ UNCHANGED <<files, vidTask>>
       ELSE IF fail = 1
       THEN answer(500, [error |-> "Failed to generate upload URL"])
            /\ UNCHANGED <<files, vidTask>>
       ELSE IF dbConfigured /\ fail # 3
       THEN /\ Len(files) < MaxFiles
            /\ files' = Append(files, NewFileRecord(destination, 0))
            /\ vidTask' = Append(vidTask, "none")
            /\ answer(200, issued(Len(files) + 1))
       ELSE /\ UNCHANGED <<files, vidTask>>
            /\ answer(200, issued(0))

(***************************************************************************)
(* GET /files/:fileName/stream and GET /files/:fileName/signed-url         *)
(***************************************************************************)
\* `if (quality !== 'original' && FileMetadata) { findOne ...; if (fileRecord
\* && fileRecord.qualityLevels[quality]) filePath = ....path }`.
\* The result is the set of outcomes: a key, or the error raised, by findOne
\* or by reading a property of a null qualityLevels (a TypeError).
ResolveQualityPath(key, quality, findRaises) ==
    LET found(path) == [error |-> "", path |-> path]
        raised(error) == [error |-> error, path |-> NoKey]
    IN IF quality = "original" \/ ~dbConfigured
       THEN {found(key)}
       ELSE IF findRaises
       THEN {raised("repository")}
       ELSE {IF f = 0 THEN found(key)
             ELSE IF files[f].qualityLevels.kind = "null"
             THEN raised("TypeError")
             ELSE IF HasEntry(files[f].qualityLevels, quality)
             THEN found(files[f].qualityLevels.entries[quality])
             ELSE found(key) : f \in FindOne(key)}

\* Object.keys(fileRecord.qualityLevels || {})
AvailableQualities(rec) == DOMAIN rec.qualityLevels.entries

\* CloudStorageService.generateSignedUrl(fileName, { action,
\* expiresInMinutes }): what the URL grants.  signedUrlOptions holds
\* version, action, expires and the caller's options; the handler passes no
\* contentType.
generateSignedUrl(fileName, action) ==
    [key |-> fileName, action |-> action, contentType |-> ""]

\* fail: 0 no call raises, 1 the first findOne raises, 2 fileExists raises,
\*       3 generateSignedUrl raises, 4 the second findOne raises
SignedUrlActionRequest(key, quality, action, fail) ==
    LET answer(status, out) ==
            /\ resp' = [ep |-> "signed-url", status |-> status, out |-> out]
            /\ UNCHANGED <<dbConfigured, files, jobs, sessions, events,
                           objects, vidTask, jobTask>>
        issued(path, qualities) ==
            [fileName |-> path, qualities |-> qualities,
             signedUrl |-> generateSignedUrl(path, action)]
    IN \E r \in ResolveQualityPath(key, quality, fail = 1) :
         IF r.error # ""
         THEN answer(500, [error |-> r.error])
         ELSE IF fail = 2
         THEN answer(500, [error |-> "store"])
         ELSE IF ~Exists(r.path)
         THEN answer(404, [error |-> "File not found"])
         ELSE IF fail = 3
         THEN answer(500, [error |-> "store"])
         ELSE IF ~dbConfigured
         THEN answer(200, issued(r.path, {}))
         ELSE IF fail = 4
         THEN answer(500, [error |-> "repository"])
         ELSE \E f \in FindOne(key) :
                answer(200, issued(r.path, IF f = 0 THEN {}
                                           ELSE AvailableQualities(files[f])))

\* the request with the default of the query, action = 'read'
SignedUrlRequest(key, quality, fail) ==
    SignedUrlActionRequest(key, quality, "read", fail)

\* the Range header of a request: absent, or a text
NoRange == <<>>

\* streamFile(filePath, range): the options createReadStream is given
ReadOptions(range) == [start |-> range.start, end |-> range.end]

\* AnalyticsService.trackEvent: VideoAnalytics.create returns (stored) or
\* raises, which is logged.
TrackEvent(evs, fileId, session, type, stored) ==
    IF dbConfigured /\ stored /\ fileId \in 1..Len(files)
    THEN evs \cup {[fileId |-> fileId, session |-> session, type |-> type]}
    ELSE evs

\* fail: 0 no call raises, 1 the first findOne raises, 2 fileExists raises,
\*       3 getFileMetadata raises, 4 streamFile raises,
\*       5 the second findOne raises, 6 increment raises,
\*       7 update({ lastViewed }) raises.
\* From 4 on the head of the response is already written: the catch block's
\* res.status(500).json raises in turn and the status stays.
StreamRequest(key, quality, range, session, tracked, fail) ==
    LET answer(status, out) ==
            resp' = [ep |-> "stream", status |-> status, out |-> out]
        still == UNCHANGED <<files, events>>
    IN /\ UNCHANGED <<dbConfigured, jobs, sessions, objects, vidTask, jobTask>>
       /\ \E r \in ResolveQualityPath(key, quality, fail = 1) :
            IF r.error # ""
            THEN answer(500, [error |-> r.error]) /\ still
            ELSE IF fail = 2
            THEN answer(500, [error |-> "store"]) /\ still
            ELSE IF ~Exists(r.path)
            THEN answer(404, [error |-> "File not found"]) /\ still
            ELSE IF fail = 3
            THEN answer(500, [error |-> "store"]) /\ still
            ELSE
              LET fileSize == SizeOf(r.path)
                  parsed == parseRangeHeader(range, Num(fileSize))
                  head == IF range # NoRange
                          THEN [contentRange |->
                                    ContentRange(parsed.start, parsed.end, Num(fileSize)),
                                contentLength |->
                                    JsAdd(JsSub(parsed.end, parsed.start), Num(1)),
                                path |-> r.path,
                                read |-> IF fail = 4 THEN <<>>
                                         ELSE <<ReadOptions(parsed)>>]
                          ELSE [contentLength |-> Num(fileSize),
                                path |-> r.path,
                                read |-> IF fail = 4 THEN <<>>
                                         ELSE <<"whole">>]
              IN /\ answer(IF range # NoRange THEN 206 ELSE 200, head)
                 /\ IF fail \in {4, 5} \/ session = "" \/ ~dbConfigured
                    THEN still
                    ELSE \E f \in FindOne(key) :
                           IF f = 0 THEN still
                           ELSE /\ files[f].viewCount < MaxViews
                                /\ events' = TrackEvent(events, f, session,
                                                         "view_start", tracked)
                                /\ files' = IF fail = 6 THEN files
                                            ELSE [files EXCEPT ![f].viewCount = @ + 1]

(***************************************************************************)
(* GET /files/:fileName/metadata, GET /files, POST /files/:fileName/thumbnail *)
(***************************************************************************)
\* fail: 0 no call raises, 2 fileExists or getFileMetadata raises,
\*       1 findOne raises (caught inside the handler)
MetadataRequest(key, fail) ==
    LET answer(status, out) ==
            /\ resp' = [ep |-> "metadata", status |-> status, out |-> out]
            /\ UNCHANGED <<dbConfigured, files, jobs, sessions, events,
                           objects, vidTask, jobTask>>
    IN IF fail = 2
       THEN answer(500, [error |-> "store"])
       ELSE IF ~Exists(key)
       THEN answer(404, [error |-> "File not found"])
       ELSE IF ~dbConfigured \/ fail = 1
       THEN answer(200, [size |-> SizeOf(key), id |-> 0])
       ELSE \E f \in FindOne(key) :
              answer(200, [size |-> SizeOf(key), id |-> f])

\* fail: 0 no call raises, 1 a store or media tool call before the row
\*       update raises, 3 FileMetadata.update raises, 4 the final
\*       generateSignedUrl raises
ThumbnailRequestMutStoresFirst(key, fail) ==
    /\ objects' = StorePut(objects, ThumbnailPath(key), 1)
    /\ resp' = [ep |-> "thumbnail", status |-> IF Exists(key) THEN 200 ELSE 404,
                out |-> [error |-> "File not found"]]
    /\ UNCHANGED <<dbConfigured, files, jobs, sessions, events, vidTask,
                   jobTask>>
ThumbnailRequest(key, fail) ==
    LET thumbnailPath == ThumbnailPath(key)
        answer(status, out) ==
            /\ resp' = [ep |-> "thumbnail", status |-> status, out |-> out]
            /\ UNCHANGED <<dbConfigured, jobs, sessions, events, vidTask,
                           jobTask>>
    IN IF fail = 1
       THEN answer(500, [error |-> "store"]) /\ UNCHANGED <<files, objects>>
       ELSE IF ~Exists(key)
       THEN answer(404, [error |-> "File not found"])
            /\ UNCHANGED <<files, objects>>
       ELSE /\ objects' = StorePut(objects, thumbnailPath, 1)
            /\ IF dbConfigured /\ fail = 3
               THEN answer(500, [error |-> "repository"]) /\ UNCHANGED files
               ELSE /\ files' = IF dbConfigured
                                THEN [i \in 1..Len(files) |->
                                        IF files[i].filePath = key
                                        THEN [files[i] EXCEPT
                                                !.thumbnailPath = thumbnailPath]
                                        ELSE files[i]]
                                ELSE files
                    /\ IF fail = 4
                       THEN answer(500, [error |-> "store"])
                       ELSE answer(200, [thumbnailPath |-> thumbnailPath])

\* fail: 0 no call raises, 2 listFiles raises,
\*       1 findAll raises (caught inside the handler)
\* bucket.getFiles returns the names in the order of their bytes.  The
\* tokens of the keys, in that order.
TokenOrder ==
    <<"-clip", ".jpg", ".mp4", "360-videos/", "_480p", "_720p", "_thumbnail",
      "old", "t1", "t2", "uploads/">>
TokenRank(t) == CHOOSE i \in 1..Len(TokenOrder) : TokenOrder[i] = t
RECURSIVE NameBefore(_, _)
NameBefore(a, b) ==
    IF a = <<>> THEN b # <<>>
    ELSE IF b = <<>> THEN FALSE
    ELSE IF Head(a) = Head(b) THEN NameBefore(Tail(a), Tail(b))
    ELSE TokenRank(Head(a)) < TokenRank(Head(b))
RECURSIVE SortedNames(_)
SortedNames(S) ==
    IF S = {} THEN <<>>
    ELSE LET first == CHOOSE x \in S : \A y \in S \ {x} : NameBefore(x, y)
         IN <<first>> \o SortedNames(S \ {first})

\* CloudStorageService.listFiles(prefix, { limit, pageToken }): one page of
\* at most limit names with the prefix; pageToken is the number of names the
\* pages before it returned.
listFiles(prefix, limit, pageToken) ==
    LET all == SortedNames({o.key : o \in {x \in objects :
                                             StartsWith(x.key, prefix)}})
        last == IF pageToken + limit < Len(all) THEN pageToken + limit
                ELSE Len(all)
    IN SubSeq(all, pageToken + 1, last)

\* FileMetadata.findAll({ where: filePath LIKE prefix%, order: uploadedAt
\* DESC, limit }): the ids of the limit newest rows with the prefix; rows
\* are created in the order of their ids.
findAllNewest(prefix, limit) ==
    LET matching == {i \in 1..Len(files) : StartsWith(files[i].filePath, prefix)}
    IN {i \in matching : Cardinality({j \in matching : j > i}) < limit}

\* dbFiles.find(db => db.filePath === file.name): the first in that order
MergedEntry(dbFiles, name) ==
    LET same == {i \in dbFiles : files[i].filePath = name}
        id == IF same = {} THEN 0
              ELSE CHOOSE i \in same : \A j \in same : j <= i
    IN IF id = 0 THEN [name |-> name, id |-> 0]
       ELSE [name |-> name, id |-> id,
             processingStatus |-> files[id].processingStatus,
             viewCount |-> files[id].viewCount,
             availableQualities |-> AvailableQualities(files[id])]

\* fail: 0 no call raises, 1 findAll raises, 2 listFiles raises
ListPageRequest(prefix, limit, pageToken, fail) ==
    LET answer(status, out) ==
            /\ resp' = [ep |-> "list", status |-> status, out |-> out]
            /\ UNCHANGED <<dbConfigured, files, jobs, sessions, events,
                           objects, vidTask, jobTask>>
        page == listFiles(prefix, limit, pageToken)
        dbFiles == IF dbConfigured /\ fail # 1
                   THEN findAllNewest(prefix, limit) ELSE {}
    IN IF fail = 2
       THEN answer(500, [error |-> "store"])
       ELSE answer(200, [files |-> [n \in 1..Len(page) |->
                                       MergedEntry(dbFiles, page[n])],
                         totalFiles |-> Len(page),
                         hasMore |-> Len(page) = limit])

\* the defaults of the query: no prefix, limit = 50, the first page
DefaultLimit == 50
ListRequest(fail) == ListPageRequest(<<>>, DefaultLimit, 0, fail)

(***************************************************************************)
(* POST /analytics/track, GET /analytics/files/:fileId/stats,              *)
(* GET /analytics/dashboard                                                *)
(***************************************************************************)
SessionIds == {"s1", "s2"}

\* complete: fileId, sessionId and eventType are all present in the body;
\* stored: VideoAnalytics.create returns
TrackRequest(complete, fileId, session, stored) ==
    /\ resp' = IF ~complete
               THEN [ep |-> "track", status |-> 400,
                     out |-> [error |-> "fileId, sessionId, and eventType are required"]]
               ELSE [ep |-> "track", status |-> 200,
                     out |-> [message |-> "Event tracked successfully"]]
    /\ events' = IF complete
                 THEN TrackEvent(events, fileId, session, "play", stored)
                 ELSE events
    /\ UNCHANGED <<dbConfigured, files, jobs, sessions, objects, vidTask,
                   jobTask>>

\* AnalyticsService.getVideoStats: null without the repository, for an
\* unknown file, and when a query raises
getVideoStats(fileId, queryRaises) ==
    IF ~dbConfigured \/ queryRaises \/ fileId \notin 1..Len(files)
    THEN [found |-> FALSE, viewCount |-> 0, viewers |-> {}]
    ELSE [found |-> TRUE, viewCount |-> files[fileId].viewCount,
          viewers |-> {e.session : e \in {x \in events :
                          x.fileId = fileId /\ x.type = "view_start"}}]

StatsRequest(fileId, queryRaises) ==
    LET stats == getVideoStats(fileId, queryRaises)
    IN /\ resp' = IF ~stats.found
                  THEN [ep |-> "stats", status |-> 404,
                        out |-> [error |-> "File not found or analytics not available"]]
                  ELSE [ep |-> "stats", status |-> 200, out |-> stats]
       /\ UNCHANGED <<dbConfigured, files, jobs, sessions, events, objects,
                      vidTask, jobTask>>

DashboardRequest(queryRaises) ==
    /\ resp' = IF ~dbConfigured
               THEN [ep |-> "dashboard", status |-> 503,
                     out |-> [error |-> "Analytics not available"]]
               ELSE IF queryRaises
               THEN [ep |-> "dashboard", status |-> 500,
                     out |-> [error |-> "repository"]]
               ELSE [ep |-> "dashboard", status |-> 200,
                     out |-> [totalVideos |-> Len(files),
                              totalViews |-> Cardinality({e \in events :
                                                e.type = "view_start"})]]
    /\ UNCHANGED <<dbConfigured, files, jobs, sessions, events, objects,
                   vidTask, jobTask>>

(***************************************************************************)
(* POST /sessions/create                                                   *)
(***************************************************************************)
NoSession == ""

\* SessionService.createSession: generated is the value of
\* generateSessionId(); UserSession.create raises when told to and when the
\* sessionId is taken (the column is unique).  threw: the error leaves
\* createSession.
createSessionMutRethrows(generated, createRaises) ==
    IF ~dbConfigured
    THEN [threw |-> FALSE, sessionId |-> NoSession]
    ELSE IF createRaises \/ generated \in sessions
    THEN [threw |-> TRUE, sessionId |-> NoSession]
    ELSE [threw |-> FALSE, sessionId |-> generated]
createSession(generated, createRaises) ==
    IF ~dbConfigured
    THEN [threw |-> FALSE, sessionId |-> NoSession]
    ELSE IF createRaises \/ generated \in sessions
    THEN [threw |-> FALSE, sessionId |-> NoSession]
    ELSE [threw |-> FALSE, sessionId |-> generated]

\* fresh: the value of the handler's own generateSessionId() call
SessionCreateRequest(generated, fresh, createRaises) ==
    LET session == createSession(generated, createRaises)
    IN /\ resp' = IF session.threw
                  THEN [ep |-> "sessions", status |-> 500,
                        out |-> [error |-> "repository"]]
                  ELSE IF session.sessionId # NoSession
                  THEN [ep |-> "sessions", status |-> 200,
                        out |-> [sessionId |-> session.sessionId,
                                 message |-> "Session created successfully"]]
                  ELSE [ep |-> "sessions", status |-> 200,
                        out |-> [sessionId |-> fresh,
                                 message |-> "Session created (no database)"]]
       /\ sessions' = IF session.sessionId # NoSession
                      THEN sessions \cup {session.sessionId}
                      ELSE sessions
       /\ UNCHANGED <<dbConfigured, files, jobs, events, objects, vidTask,
                      jobTask>>

(***************************************************************************)
(* The pipeline: requests of the endpoints that write the repository or    *)
(* the store, interleaved with the steps of the background tasks.  A       *)
(* response is observed (Deliver) before the next step is taken.           *)
(***************************************************************************)
RequestKeys == {SeedKey, generateUniqueFileName("t1")}

Deliver ==
    /\ resp # NoResp
    /\ resp' = NoResp
    /\ UNCHANGED <<dbConfigured, files, jobs, sessions, events, objects,
                   vidTask, jobTask, tails, call>>

BackgroundTasks ==
    \/ \E f \in 1..Len(files) : processVideoInBackground(f)
    \/ \E j \in 1..Len(jobs) : processTranscodingJob(j)

PipelineRequests ==
    \/ \E key \in RequestKeys, quality \in Quals, fail \in 0..2 :
         Len(jobs) < PipelineJobs /\ TranscodeRequest(key, quality, fail)
    \/ \E hasFile \in BOOLEAN, mimetype \in {"video/mp4", "text/plain"},
          quality \in {"original", "720p"}, duration \in {0, 4},
          fail \in {0, 2, 3} :
         UploadRequest(hasFile, mimetype, quality, duration, "t1", fail)
    \/ \E fileType \in {"video/mp4", "video/x-ms-wmv"},
          fileSize \in {0, MaxUploadMiB + 1}, fail \in {0, 3} :
         GenerateUploadUrlRequest(TRUE, fileType, fileSize, "t1", fail)
    \/ \E key \in RequestKeys, quality \in {"original", "720p"},
          session \in {"", "s1"} :
         StreamRequest(key, quality, NoRange, session, TRUE, 0)
    \/ \E key \in RequestKeys, fail \in {0, 3} : ThumbnailRequest(key, fail)

Next ==
    \/ resp = NoResp /\ BackgroundTasks /\ UNCHANGED <<tails, call>>
    \/ resp = NoResp /\ PipelineRequests /\ UNCHANGED <<tails, call>>
    \/ Deliver

Spec == Init /\ [][Next]_vars

(***************************************************************************)
(* Transcoding: several jobs, on rows stored with quality 'original'.      *)
(***************************************************************************)
TranscodeRequests ==
    \/ \E key \in RequestKeys, quality \in Quals, fail \in 0..2 :
         Len(jobs) < MaxJobs /\ TranscodeRequest(key, quality, fail)
    \/ \E fail \in {0, 3} :
         UploadRequest(TRUE, "video/mp4", "original", 4, "t1", fail)

TranscodeNext ==
    \/ resp = NoResp /\ UNCHANGED <<tails, call>>
          /\ \E j \in 1..Len(jobs) : processTranscodingJob(j)
    \/ resp = NoResp /\ TranscodeRequests /\ UNCHANGED <<tails, call>>
    \/ Deliver

TranscodeSpec == Init /\ [][TranscodeNext]_vars

(***************************************************************************)
(* The gateway: every endpoint, answered one request at a time, with or    *)
(* without the repository.                                                 *)
(***************************************************************************)
FileRequests ==
    \/ \E hasFile \in BOOLEAN, mimetype \in {"video/mp4", "text/plain"},
          fail \in 0..3 :
         UploadRequest(hasFile, mimetype, "original", 4, "t1", fail)
    \/ \E hasName \in BOOLEAN, fileType \in {"video/mp4", "video/x-ms-wmv"},
          fileSize \in {0, MaxUploadMiB, MaxUploadMiB + 1}, fail \in {0, 1, 3} :
         GenerateUploadUrlRequest(hasName, fileType, fileSize, "t1", fail)
    \/ \E key \in RequestKeys, quality \in {"original", "720p"}, fail \in 0..4 :
         SignedUrlRequest(key, quality, fail)
    \/ \E key \in RequestKeys, quality \in {"original", "720p"},
          range \in {NoRange, RangeHeader(0, 1)}, session \in {"", "s1"},
          tracked \in BOOLEAN, fail \in 0..7 :
         StreamRequest(key, quality, range, session, tracked, fail)
    \/ \E key \in RequestKeys, fail \in 0..2 : MetadataRequest(key, fail)
    \/ \E fail \in 0..2 : ListRequest(fail)
    \/ \E key \in RequestKeys, fail \in {0, 1, 3, 4} : ThumbnailRequest(key, fail)
    \/ \E key \in RequestKeys, quality \in Quals, fail \in 0..2 :
         Len(jobs) < MaxJobs /\ TranscodeRequest(key, quality, fail)

ServiceRequests ==
    \/ \E complete \in BOOLEAN, fileId \in 1..MaxFiles, stored \in BOOLEAN :
         TrackRequest(complete, fileId, "s1", stored)
    \/ \E fileId \in 1..(MaxFiles + 1), queryRaises \in BOOLEAN :
         StatsRequest(fileId, queryRaises)
    \/ \E queryRaises \in BOOLEAN : DashboardRequest(queryRaises)
    \/ \E generated \in SessionIds, fresh \in SessionIds,
          createRaises \in BOOLEAN :
         SessionCreateRequest(generated, fresh, createRaises)

GatewayNext ==
    \/ resp = NoResp /\ FileRequests /\ UNCHANGED <<tails, call>>
    \/ resp = NoResp /\ ServiceRequests /\ UNCHANGED <<tails, call>>
    \/ Deliver

GatewaySpec == Init /\ [][GatewayNext]_vars

(***************************************************************************)
(* Streaming: range requests against the stored objects.                   *)
(***************************************************************************)
RangePoints == {0, 1, MaxSize - 1, MaxSize}
Ranges ==
    {NoRange} \cup {RangeHeader(s, e) : s \in RangePoints, e \in RangePoints}
        \cup {BytesEq \o FormatNat(s) \o <<"-">> : s \in RangePoints}
        \cup {BytesEq \o <<"-">> \o FormatNat(e) : e \in RangePoints}
        \cup {BytesEq, <<"a">>}

StreamNext ==
    \/ /\ resp = NoResp
       /\ UNCHANGED <<tails, call>>
       /\ \E key \in RequestKeys, quality \in {"original", "720p"},
             range \in Ranges, session \in {"", "s1"}, fail \in 0..7 :
            StreamRequest(key, quality, range, session, TRUE, fail)
    \/ Deliver

StreamSpec == Init /\ [][StreamNext]_vars

(***************************************************************************)
(* Upload initiations: multipart bodies of any size through the            *)
(* express-fileupload middleware, and generate-upload-url requests.        *)
(***************************************************************************)
Stamps == {"t1", "t2"}
UploadTypes == {"video/mp4", "video/x-ms-wmv", "text/plain"}
UploadSizes == {0, MaxUploadMiB, MaxUploadMiB + 1}

\* fileUpload({ limits: { fileSize: 8 GiB }, abortOnLimit: false }): a file
\* above the limit is cut at the limit and flagged truncated; the request
\* is passed on to the handler either way.
fileUploadLimit(bodyMiB) ==
    [passed |-> TRUE, truncated |-> bodyMiB > MaxUploadMiB]

\* POST /files/upload with a multipart body of bodyMiB: the handler never
\* reads the truncated flag.
MultipartUploadRequest(bodyMiB, mimetype, quality, stamp, fail) ==
    /\ fileUploadLimit(bodyMiB).passed
    /\ UploadRequest(TRUE, mimetype, quality, 4, stamp, fail)

UploadNext ==
    \/ /\ resp = NoResp
       /\ UNCHANGED <<tails, call>>
       /\ \E bodyMiB \in UploadSizes, mimetype \in UploadTypes,
             stamp \in Stamps, fail \in 0..3 :
            MultipartUploadRequest(bodyMiB, mimetype, "original", stamp, fail)
    \/ /\ resp = NoResp
       /\ UNCHANGED <<tails, call>>
       /\ \E hasName \in BOOLEAN, fileType \in UploadTypes,
             fileSize \in UploadSizes, stamp \in Stamps, fail \in {0, 1, 3} :
            GenerateUploadUrlRequest(hasName, fileType, fileSize, stamp, fail)
    \/ Deliver

UploadSpec == Init /\ [][UploadNext]_vars

(***************************************************************************)
(* View tracking: the statements of the stream handler after the response  *)
(* head is written (lines 1515-1533), one awaited call per step, so that   *)
(* the tails of several stream requests interleave.  StreamRequest runs    *)
(* the same statements within the step of the request.                     *)
(***************************************************************************)
MaxTails == 2

NewTail(key, session) ==
    [key |-> key, session |-> session, pc |-> "find", file |-> 0, snap |-> 0,
     counted |-> FALSE]

\* The handler up to the piping of the stream; `if (sessionId &&
\* FileMetadata)` then starts the tracking.  fail is one of 0..4, as in
\* StreamRequest.
StreamServe(key, quality, range, session, fail) ==
    /\ StreamRequest(key, quality, range, "", TRUE, fail)
    /\ tails' = IF resp'.status \in {200, 206} /\ fail # 4 /\ session # ""
                   /\ dbConfigured
                THEN Append(tails, NewTail(key, session))
                ELSE tails
    /\ UNCHANGED call

SetTail(t, tail) ==
    /\ tails' = [tails EXCEPT ![t] = tail]
    /\ UNCHANGED <<dbConfigured, jobs, sessions, objects, vidTask, jobTask,
                   call, resp>>

\* FileMetadata.findOne({ where: { filePath: fileName } }) returns;
\* trackEvent is called and not awaited; increment is started.
ViewFind(t, stored) ==
    /\ tails[t].pc = "find"
    /\ \E f \in FindOne(tails[t].key) :
         IF f = 0
         THEN /\ SetTail(t, [tails[t] EXCEPT !.pc = "done"])
              /\ UNCHANGED <<files, events>>
         ELSE /\ SetTail(t, [tails[t] EXCEPT !.pc = "increment", !.file = f,
                                             !.snap = files[f].viewCount])
              /\ events' = TrackEvent(events, f, tails[t].session,
                                       "view_start", stored)
              /\ UNCHANGED files

\* fileRecord.increment('viewCount'): UPDATE ... SET viewCount = viewCount
\* + 1, on the stored value, not on the value of the instance.
IncrementedMutFromInstance(stored, instance) == instance + 1
Incremented(stored, instance) == stored + 1

\* increment returns; update({ lastViewed }) is started
ViewIncrement(t) ==
    /\ tails[t].pc = "increment"
    /\ files' = [files EXCEPT ![tails[t].file].viewCount =
                    Incremented(@, tails[t].snap)]
    /\ SetTail(t, [tails[t] EXCEPT !.pc = "touch", !.snap = 0,
                                   !.counted = TRUE])
    /\ UNCHANGED events

\* update({ lastViewed }) returns: the handler is done
ViewTouch(t) ==
    /\ tails[t].pc = "touch"
    /\ SetTail(t, [tails[t] EXCEPT !.pc = "done"])
    /\ UNCHANGED <<files, events>>

\* The awaited call raises: the outer catch runs with the head of the
\* response already written.
ViewRaise(t) ==
    /\ tails[t].pc \in {"find", "increment", "touch"}
    /\ SetTail(t, [tails[t] EXCEPT !.pc = "failed", !.snap = 0])
    /\ UNCHANGED <<files, events>>

ViewTail(t) ==
    \/ \E stored \in BOOLEAN : ViewFind(t, stored)
    \/ ViewIncrement(t)
    \/ ViewTouch(t)
    \/ ViewRaise(t)

ViewNext ==
    \/ /\ resp = NoResp
       /\ Len(tails) < MaxTails
       /\ \E key \in RequestKeys, quality \in {"original", "720p"},
             range \in {NoRange, RangeHeader(0, 1)}, session \in {"", "s1"},
             fail \in 0..4 :
            StreamServe(key, quality, range, session, fail)
    \/ resp = NoResp /\ \E t \in 1..Len(tails) : ViewTail(t)
    \/ Deliver

ViewSpec == Init /\ [][ViewNext]_vars

(***************************************************************************)
(* Signed URLs: the two endpoints that issue them, on stored objects.      *)
(***************************************************************************)
UrlNext ==
    \/ /\ resp = NoResp
       /\ UNCHANGED <<tails, call>>
       /\ \E key \in RequestKeys, quality \in {"original", "720p"},
             action \in {"read", "write"}, fail \in 0..4 :
            SignedUrlActionRequest(key, quality, action, fail)
    \/ /\ resp = NoResp
       /\ UNCHANGED <<tails, call>>
       /\ \E fileType \in UploadTypes, stamp \in Stamps, fail \in {0, 1, 3} :
            GenerateUploadUrlRequest(TRUE, fileType, 0, stamp, fail)
    \/ /\ resp = NoResp
       /\ UNCHANGED <<tails, call>>
       /\ \E fail \in {0, 3} :
            UploadRequest(TRUE, "video/mp4", "original", 4, "t1", fail)
    \/ Deliver

UrlSpec == Init /\ [][UrlNext]_vars

(***************************************************************************)
(* DELETE /files/:fileName: the administrative deletion of an object and   *)
(* of its rows.                                                            *)
(***************************************************************************)
\* path.basename(destination): the key without its folder token
Basename(key) == Tail(key)

\* CloudStorageService.deleteFile(fileName): bucket.file(fileName).delete()
\* is called without ignoreNotFound, so the store answers 404 for a name it
\* does not hold and the promise rejects; the catch rethrows every rejection
\* as 'Failed to delete file: ...'.
deleteFile(objs, fileName, storeFails) ==
    IF storeFails \/ ~(\E o \in objs : o.key = fileName)
    THEN [raised |-> TRUE, objects |-> objs]
    ELSE [raised |-> FALSE, objects |-> {o \in objs : o.key # fileName}]

\* FileMetadata.destroy({ where: { fileName } }): the rows kept.  The
\* fileName column holds path.basename(filePath).
KeptRows(fileName) ==
    {i \in 1..Len(files) : Basename(files[i].filePath) # fileName}

RECURSIVE Keep(_, _, _)
Keep(seq, kept, i) ==
    IF i > Len(seq) THEN <<>>
    ELSE (IF i \in kept THEN <<seq[i]>> ELSE <<>>) \o Keep(seq, kept, i + 1)

\* fail: 0 no call raises, 1 the store's delete raises for another reason
\*       than a missing object, 2 destroy raises (as it does without a
\*       reachable database)
DeleteRequest(fileName, fail) ==
    LET d == deleteFile(objects, fileName, fail = 1)
        answer(status, out) ==
            /\ resp' = [ep |-> "delete", status |-> status, out |-> out]
            /\ objects' = d.objects
            /\ UNCHANGED <<dbConfigured, jobs, sessions, events, jobTask>>
    IN IF d.raised
       THEN /\ answer(500, [error |-> "Failed to delete file"])
            /\ UNCHANGED <<files, vidTask>>
       ELSE IF fail = 2 \/ ~dbConfigured
       THEN /\ answer(500, [error |-> "repository"])
            /\ UNCHANGED <<files, vidTask>>
       ELSE /\ answer(200, [message |-> "deleted"])
            /\ files' = Keep(files, KeptRows(fileName), 1)
            /\ vidTask' = Keep(vidTask, KeptRows(fileName), 1)

DeleteKeys ==
    RequestKeys \cup {generateUniqueFileName("t2"),
                      Basename(generateUniqueFileName("t1"))}

DeleteNext ==
    \/ /\ resp = NoResp
       /\ UNCHANGED <<tails, call>>
       /\ \E fileName \in DeleteKeys, fail \in 0..2 :
            DeleteRequest(fileName, fail)
    \/ /\ resp = NoResp
       /\ UNCHANGED <<tails, call>>
       /\ \E stamp \in Stamps, fail \in {0, 3} :
            UploadRequest(TRUE, "video/mp4", "original", 4, stamp, fail)
    \/ Deliver

DeleteSpec == Init /\ [][DeleteNext]_vars

(***************************************************************************)
(* GET /files over a bucket and a table that uploads fill.                 *)
(***************************************************************************)
ListFiles == 2
Prefixes == {<<>>, <<"360-videos/">>}

ListNext ==
    \/ /\ resp = NoResp
       /\ UNCHANGED <<tails, call>>
       /\ \E prefix \in Prefixes, limit \in (1..ListFiles) \cup {DefaultLimit},
             pageToken \in 0..1, fail \in 0..2 :
            ListPageRequest(prefix, limit, pageToken, fail)
    \/ /\ resp = NoResp
       /\ UNCHANGED <<tails, call>>
       /\ \E stamp \in Stamps, fail \in {0, 3} :
            UploadRequestWithin(ListFiles, TRUE, "video/mp4", "original", 4,
                                stamp, fail)
    \/ Deliver

ListSpec == Init /\ [][ListNext]_vars

(***************************************************************************)
(* Derived assets: thumbnails and renditions of one stored source.         *)
(***************************************************************************)
\* generateUniqueFileName('clip.'): the extension is empty, the key ends in
\* "." and /\.[^/.]+$/ does not match it
DotEndKey == <<"360-videos/", "t1", "-clip_", ".">>
\* generateUniqueFileName('a.b/c'): the extension is 'b/c', a "/" follows
\* the last "."
SlashExtKey == <<"360-videos/", "t1", "-a_b_c", ".b/", "c">>
UploadedSources == {generateUniqueFileName("t1"), DotEndKey}
DerivedSources == UploadedSources \cup {SlashExtKey}

\* The state after one accepted initiation has stored its object and its
\* row: POST /files/upload with a quality other than 'original', which has
\* started processVideoInBackground, or generate-upload-url followed by the
\* client's PUT.
DerivedInit ==
    /\ dbConfigured = TRUE
    /\ \E source \in DerivedSources :
         /\ objects = {[key |-> source, size |-> MaxSize]}
         /\ files = <<NewFileRecord(source, 0)>>
         /\ vidTask \in IF source \in UploadedSources
                        THEN {<<"find">>, <<"none">>} ELSE {<<"none">>}
    /\ jobs = <<>>
    /\ jobTask = <<>>
    /\ sessions = {}
    /\ events = {}
    /\ tails = <<>>
    /\ call = NoCall
    /\ resp = NoResp

DerivedNext ==
    \/ /\ resp = NoResp
       /\ UNCHANGED <<tails, call>>
       /\ \E key \in DerivedSources, fail \in {0, 1, 3, 4} :
            ThumbnailRequest(key, fail)
    \/ /\ resp = NoResp
       /\ UNCHANGED <<tails, call>>
       /\ Len(jobs) < PipelineJobs
       /\ \E key \in DerivedSources, quality \in Quals, fail \in 0..2 :
            TranscodeRequest(key, quality, fail)
    \/ /\ resp = NoResp
       /\ UNCHANGED <<tails, call>>
       /\ \E f \in 1..Len(files) : processVideoInBackground(f)
    \/ /\ resp = NoResp
       /\ UNCHANGED <<tails, call>>
       /\ \E j \in 1..Len(jobs) : processTranscodingJob(j)
    \/ Deliver

DerivedSpec == DerivedInit /\ [][DerivedNext]_vars

(***************************************************************************)
(* The background tasks under fairness: every awaited call returns, with   *)
(* a result or with an error, so a task that can take a step takes one.    *)
(***************************************************************************)
VidStep(f) ==
    /\ f <= Len(files)
    /\ processVideoInBackground(f)
    /\ UNCHANGED <<tails, call>>

JobStep(j) ==
    /\ j <= Len(jobs)
    /\ processTranscodingJob(j)
    /\ UNCHANGED <<tails, call>>

LiveRequests ==
    /\ resp = NoResp
    /\ UNCHANGED <<tails, call>>
    /\ \/ \E fail \in {0, 3} :
            UploadRequest(TRUE, "video/mp4", "720p", 0, "t1", fail)
       \/ /\ Len(jobs) < PipelineJobs
          /\ \E key \in RequestKeys, fail \in 0..2 :
               TranscodeRequest(key, "720p", fail)

LiveNext ==
    \/ \E f \in 1..MaxFiles : VidStep(f)
    \/ \E j \in 1..PipelineJobs : JobStep(j)
    \/ LiveRequests
    \/ Deliver

LiveSpec ==
    /\ Init
    /\ [][LiveNext]_vars
    /\ \A f \in 1..MaxFiles : WF_vars(VidStep(f))
    /\ \A j \in 1..PipelineJobs : WF_vars(JobStep(j))
    /\ WF_vars(Deliver)

(***************************************************************************)
(* Helper functions applied to arguments of their own.                     *)
(***************************************************************************)
MaxDim == 21

\* width / height of two non-negative integers: the quotient, Infinity
\* (den = 0 < num) or NaN (0 / 0).  The double nearest to a quotient of
\* integers below 2^50 compares to the doubles 1.8 and 2.1 as the quotient
\* compares to 18/10 and 21/10: rounding is monotone, and 9/5 and 21/10
\* round to those two doubles.
JsDiv(a, b) == [num |-> a, den |-> b]
\* q >= tenths / 10; a comparison with NaN is false
RatioGeMutStrict(q, tenths) ==
    IF q.den = 0 THEN q.num > 0 ELSE 10 * q.num > tenths * q.den
RatioGe(q, tenths) ==
    IF q.den = 0 THEN q.num > 0 ELSE 10 * q.num >= tenths * q.den
\* q <= tenths / 10
RatioLe(q, tenths) ==
    IF q.den = 0 THEN FALSE ELSE 10 * q.num <= tenths * q.den

\* VideoProcessingService.detect360Video({ width, height })
detect360Video(width, height) ==
    LET aspectRatio == JsDiv(width, height)
        is360 == RatioGe(aspectRatio, 18) /\ RatioLe(aspectRatio, 21)
    IN [is360Video |-> is360,
        projection |-> IF is360 THEN "equirectangular" ELSE "null"]

\* frame sizes the media probe reports
Dims == 0..MaxDim \cup {1080, 1920, 3840}
DetectCalls ==
    {[fn |-> "detect360Video", done |-> FALSE, width |-> w, height |-> h,
      value |-> [is360Video |-> FALSE, projection |-> "null"]] :
        w \in Dims, h \in Dims}

Detect ==
    /\ call.fn = "detect360Video" /\ ~call.done
    /\ call' = [call EXCEPT !.done = TRUE,
                            !.value = detect360Video(call.width, call.height)]
    /\ UNCHANGED <<dbConfigured, files, jobs, sessions, events, objects,
                   vidTask, jobTask, tails, resp>>

\* the two validations of a declared content type: isValidVideoFile of the
\* direct upload, and the validTypes test of generate-upload-url
DeclaredTypes == MimeTypes \cup {"text/plain", "image/jpeg"}
ValidateCalls ==
    {[fn |-> "validTypes", done |-> FALSE, type |-> t,
      value |-> [direct |-> FALSE, presigned |-> FALSE]] : t \in DeclaredTypes}

Validate ==
    /\ call.fn = "validTypes" /\ ~call.done
    /\ call' = [call EXCEPT !.done = TRUE,
                            !.value = [direct |-> isValidVideoFile(call.type),
                                       presigned |-> IsValidUploadUrlType(call.type)]]
    /\ UNCHANGED <<dbConfigured, files, jobs, sessions, events, objects,
                   vidTask, jobTask, tails, resp>>

HelperCalls == DetectCalls \cup ValidateCalls

HelperInit ==
    /\ dbConfigured = FALSE
    /\ files = <<>> /\ vidTask = <<>> /\ jobs = <<>> /\ jobTask = <<>>
    /\ objects = {} /\ sessions = {} /\ events = {}
    /\ tails = <<>>
    /\ resp = NoResp
    /\ call \in HelperCalls

HelperNext ==
    \/ Detect
    \/ Validate

HelperSpec == HelperInit /\ [][HelperNext]_vars

(***************************************************************************)
(* Properties.                                                             *)
(***************************************************************************)
StatusRank(status) ==
    IF status = "pending" THEN 0 ELSE IF status = "processing" THEN 1 ELSE 2

\* C1: the processingStatus of a FileMetadata row never regresses: a step
\* of any request or background task leaves it where it is or moves it
\* forward over pending < processing < {completed, failed}, and a completed
\* or failed row keeps its status.
C1_StatusNeverRegresses ==
    [][/\ Len(files') >= Len(files)
       /\ \A f \in 1..Len(files) :
            /\ StatusRank(files'[f].processingStatus)
                   >= StatusRank(files[f].processingStatus)
            /\ files[f].processingStatus \in {"completed", "failed"}
                   => files'[f].processingStatus = files[f].processingStatus]_vars

\* A row went pending, processing, completed under processVideoInBackground
\* while a transcoding job wrote the same row and completed.
C1_Witness ==
    \E f \in 1..Len(files), j \in 1..Len(jobs) :
        /\ vidTask[f] = "done"
        /\ files[f].processingStatus = "completed"
        /\ jobs[j].fileId = f
        /\ jobs[j].status = "completed"

C3_OneActiveJobPerQuality ==
    \A i \in 1..Len(jobs), j \in 1..Len(jobs) :
        /\ jobs[i].fileId = jobs[j].fileId
        /\ jobs[i].targetQuality = jobs[j].targetQuality
        /\ jobs[i].status \in {"queued", "processing"}
        /\ jobs[j].status \in {"queued", "processing"}
        => i = j

\* C4: a transcode request for a quality the row's mapping already holds
\* (the lookup of the row returning) is answered 200, creates no
\* TranscodingJob and starts no task.
C4_TranscodeIdempotent ==
    [][\A key \in RequestKeys, quality \in Quals, fail \in {0, 2} :
         /\ dbConfigured
         /\ \A f \in FindOne(key) :
              f # 0 /\ quality \in DOMAIN files[f].qualityLevels.entries
         /\ TranscodeRequest(key, quality, fail)
         => /\ resp'.ep = "transcode"
            /\ resp'.status = 200
            /\ jobs' = jobs
            /\ jobTask' = jobTask]_vars

\* The short-circuit answered while the job that stored the entry exists.
C4_Witness ==
    /\ resp.ep = "transcode"
    /\ resp.status = 200
    /\ resp.out.message = "Quality level already exists"
    /\ Len(jobs) = 1
    /\ jobs[1].status = "completed"

\* C5: a processTranscodingJob that has settled left its job completed, or
\* failed with the text of the error in errorMessage.
C5_ErrorsEndFailed ==
    \A j \in 1..Len(jobs) :
        jobTask[j].pc \in {"done", "escaped"}
        => \/ jobs[j].status = "completed"
           \/ jobs[j].status = "failed" /\ jobs[j].errorMessage # ""

\* C6: the step of the upload or transcode handler that starts a background
\* task also sends the response, before the task has taken any step; the
\* transcode response carries the id of the job, whose status is queued.
C6_ResponseBeforeTask ==
    [][/\ Len(jobs') > Len(jobs)
          => /\ resp'.ep = "transcode"
             /\ resp'.status = 200
             /\ resp'.out.jobId = Len(jobs')
             /\ resp'.out.status = "queued"
             /\ jobs'[Len(jobs')].status = "queued"
             /\ jobTask'[Len(jobs')].pc = "find"
       /\ (Len(vidTask') > Len(vidTask) /\ vidTask'[Len(vidTask')] = "find")
          => /\ resp'.ep = "upload"
             /\ resp'.status = 200
             /\ resp'.out.fileId = Len(files')]_vars

\* The transcode response is out and the job's task has not moved.
C6_Witness ==
    /\ resp.ep = "transcode"
    /\ resp.status = 200
    /\ resp.out.message = "Transcoding job created"
    /\ jobTask[resp.out.jobId].pc = "find"
    /\ \E f \in 1..Len(files) : vidTask[f] \notin {"none", "done", "escaped"}

\* C7: no response of upload, generate-upload-url, signed-url, stream,
\* metadata, list or thumbnail is the failure of a repository call.
C7_RepositoryNeverFailsRequest ==
    resp.ep \in {"upload", "generate-upload-url", "signed-url", "stream",
                 "metadata", "list", "thumbnail"}
    => ~(resp.status = 500 /\ resp.out.error = "repository")

\* C8: without the repository, track, stats, dashboard and transcode
\* respond 503.
C8_Unavailable503 ==
    (~dbConfigured /\ resp.ep \in {"track", "stats", "dashboard", "transcode"})
    => resp.status = 503

\* C9: POST /sessions/create responds 200 with a non-empty sessionId: the
\* one of the stored UserSession when the repository is configured and the
\* write succeeds, otherwise the handler's own fresh one with no UserSession
\* stored.
C9_SessionAlways200 ==
    [][\A generated \in SessionIds, fresh \in SessionIds, createRaises \in BOOLEAN :
         SessionCreateRequest(generated, fresh, createRaises)
         => /\ resp'.ep = "sessions"
            /\ resp'.status = 200
            /\ resp'.out.sessionId # ""
            /\ IF dbConfigured /\ ~createRaises /\ generated \notin sessions
               THEN /\ resp'.out.sessionId = generated
                    /\ sessions' = sessions \cup {generated}
               ELSE /\ resp'.out.sessionId = fresh
                    /\ sessions' = sessions]_vars

\* With the repository configured the write failed: the response carries an
\* id that no UserSession holds.
C9_Witness ==
    /\ dbConfigured
    /\ resp.ep = "sessions"
    /\ resp.status = 200
    /\ resp.out.sessionId \notin sessions
    /\ sessions # {}

\* C10: a stream request whose collaborator calls all return, on a stored
\* object of size S, with Range bytes=start-end and 0 <= start <= end < S,
\* is answered 206 with Content-Range 'bytes start-end/S' and Content-Length
\* end-start+1, and reads the store for [start, end].
C10_RangeResponse ==
    [][\A key \in RequestKeys, quality \in {"original", "720p"},
          session \in {"", "s1"}, start \in 0..MaxSize, end \in 0..MaxSize :
         /\ Exists(key)
         /\ start <= end
         /\ end < SizeOf(key)
         /\ \A r \in ResolveQualityPath(key, quality, FALSE) : r.path = key
         /\ StreamRequest(key, quality, RangeHeader(start, end), session, TRUE, 0)
         => /\ resp'.status = 206
            /\ resp'.out.contentRange =
                   <<"b", "y", "t", "e", "s", " ">> \o FormatNat(start) \o <<"-">>
                       \o FormatNat(end) \o <<"/">> \o FormatNat(SizeOf(key))
            /\ resp'.out.contentLength = Num(end - start + 1)
            /\ resp'.out.read = <<[start |-> Num(start), end |-> Num(end)]>>]_vars

\* The one-byte range at offset 0 was served.
C10_Witness ==
    /\ resp.ep = "stream"
    /\ resp.status = 206
    /\ resp.out.read = <<[start |-> Num(0), end |-> Num(0)]>>
    /\ resp.out.contentLength = Num(1)

\* C11: a stream request on a stored object whose Range header is malformed
\* (no numeric start, start > end, or a bound at or beyond the size) is
\* served whole: 200 with Content-Length the size of the object.
C11_MalformedServedWhole ==
    [][\A key \in RequestKeys, session \in {"", "s1"},
          range \in {RangeHeader(s, e) : s \in RangePoints, e \in RangePoints}
                      \cup {BytesEq \o <<"-">> \o FormatNat(e) : e \in RangePoints}
                      \cup {BytesEq, <<"a">>} :
         /\ Exists(key)
         /\ range \notin {RangeHeader(s, e) : s \in 0..MaxSize, e \in 0..MaxSize}
            \/ \E s \in 0..MaxSize, e \in 0..MaxSize :
                 range = RangeHeader(s, e) /\ (s > e \/ e >= SizeOf(key))
         /\ StreamRequest(key, "original", range, session, TRUE, 0)
         => /\ resp'.status = 200
            /\ resp'.out.contentLength = Num(SizeOf(key))]_vars

\* C12: a signed-url, stream, metadata or thumbnail request whose key is not
\* in the store (the lookups before the existence test returning) is
\* answered 404 {"error": "File not found"}; nothing is issued, streamed,
\* stored or written to the repository.
C12_MissingIs404 ==
    [][\A key \in RequestKeys, quality \in {"original", "720p"} :
         /\ \A o \in objects : o.key # key
         /\ \A r \in ResolveQualityPath(key, quality, FALSE) : r.path = key
         /\ \/ \E fail \in {0, 3, 4} : SignedUrlRequest(key, quality, fail)
            \/ \E range \in {NoRange, RangeHeader(0, 1)}, session \in {"", "s1"},
                  fail \in {0, 3, 4, 5, 6, 7} :
                 StreamRequest(key, quality, range, session, TRUE, fail)
            \/ \E fail \in {0, 1} : MetadataRequest(key, fail)
            \/ \E fail \in {0, 3, 4} : ThumbnailRequest(key, fail)
         => /\ resp'.status = 404
            /\ resp'.out = [error |-> "File not found"]
            /\ files' = files
            /\ objects' = objects
            /\ events' = events]_vars

\* A thumbnail request for a key that is not stored was answered 404, with
\* the repository configured and another object in the store.
C12_Witness ==
    /\ resp.ep = "thumbnail"
    /\ resp.status = 404
    /\ dbConfigured
    /\ objects # {}

C14_OversizeRejected ==
    [][\A stamp \in Stamps, fail \in {0} :
         (\/ MultipartUploadRequest(MaxUploadMiB + 1, "video/mp4", "original",
                                    stamp, fail)
          \/ GenerateUploadUrlRequest(TRUE, "video/mp4", MaxUploadMiB + 1,
                                      stamp, fail))
         => /\ resp'.status = 400
            /\ objects' = objects
            /\ files' = files]_vars

\* C15: an upload or generate-upload-url request whose content type is
\* outside the endpoint's allow-list is answered 400; the store and the
\* repository are as they were and the response carries no destination.
C15_WrongTypeRejected ==
    [][\A stamp \in Stamps, fail \in 0..3, size \in UploadSizes :
         /\ \A mimetype \in UploadTypes \ MimeTypes :
              MultipartUploadRequest(size, mimetype, "original", stamp, fail)
              => /\ resp'.status = 400
                 /\ resp'.out = [error |-> "Invalid file type"]
                 /\ objects' = objects /\ files' = files /\ vidTask' = vidTask
         /\ \A fileType \in UploadTypes \ (MimeTypes \ {"video/x-ms-wmv"}) :
              GenerateUploadUrlRequest(TRUE, fileType, size, stamp, fail)
              => /\ resp'.status = 400
                 /\ resp'.out = [error |-> "Invalid file type"]
                 /\ objects' = objects /\ files' = files /\ vidTask' = vidTask]_vars

\* A multipart upload was refused for its type after another was stored.
C15_Witness ==
    /\ resp.ep = "upload"
    /\ resp.status = 400
    /\ resp.out.error = "Invalid file type"
    /\ \E o \in objects : o.key = generateUniqueFileName("t1")

\* C16: a multipart upload of an allowed type whose metadata extraction
\* raises still succeeds: 200, the object stored under the generated key.
C16_ProbeFailureNotFatal ==
    [][\A stamp \in Stamps, size \in {0, MaxUploadMiB} :
         MultipartUploadRequest(size, "video/mp4", "original", stamp, 1)
         => /\ resp'.status = 200
            /\ \E o \in objects' : o.key = generateUniqueFileName(stamp)]_vars

\* C17: the key an accepted upload or generate-upload-url request generates
\* is not the key of a stored object or of a FileMetadata row.
C17_KeysUnique ==
    [][(resp'.ep \in {"upload", "generate-upload-url"} /\ resp'.status = 200)
         => LET key == IF resp'.ep = "upload" THEN resp'.out.fileName
                       ELSE resp'.out.destination
            IN /\ \A o \in objects : o.key # key
               /\ \A f \in 1..Len(files) : files[f].filePath # key]_vars

\* C18: viewCount counts the served stream requests with a session id: it
\* is the number of such requests on the row's key whose increment has
\* returned, whatever the interleaving; a request whose tracking ran to its
\* end without a raise has been counted; requests with no session id or
\* answered 404 start no tracking.
C18_ViewCountCounts ==
    /\ \A f \in 1..Len(files) :
         files[f].viewCount =
             Cardinality({t \in 1..Len(tails) :
                            tails[t].file = f /\ tails[t].counted})
    /\ \A t \in 1..Len(tails) :
         /\ tails[t].session # ""
         /\ Exists(tails[t].key)
         /\ (tails[t].pc = "done" /\ FindOne(tails[t].key) # {0})
                => tails[t].counted

\* Two stream requests with a session id were tracked to the end, the
\* second read its row before the first had incremented.
C18_Witness ==
    /\ Len(tails) = 2
    /\ tails[1].pc = "done" /\ tails[2].pc = "done"
    /\ tails[1].file = 1 /\ tails[2].file = 1
    /\ files[1].viewCount = 2

\* C19: a signed URL the gateway issues for writing is bound to a content
\* type: the one of generate-upload-url, and the one of signed-url with
\* action=write.
C19_WriteUrlHasContentType ==
    /\ (resp.ep = "generate-upload-url" /\ resp.status = 200)
          => resp.out.contentType # ""
    /\ (resp.ep = "signed-url" /\ resp.status = 200
          /\ resp.out.signedUrl.action = "write")
          => resp.out.signedUrl.contentType # ""

\* C20: deleting a key the store does not hold is a success that changes
\* nothing: when no other call fails, DELETE /files/{key} for a missing
\* object answers 200 and leaves the store as it was.
C20_DeleteOfMissingSucceeds ==
    [][\A fileName \in DeleteKeys :
         (DeleteRequest(fileName, 0) /\ dbConfigured /\ ~Exists(fileName))
            => (resp'.status = 200 /\ objects' = objects)]_vars

\* C21: detect360Video depends on width and height only; for positive sizes
\* it flags the frame, with projection equirectangular, exactly when
\* 18 * height <= 10 * width <= 21 * height, and returns no projection
\* otherwise; 3840x1920 is flagged and 1920x1080 is not.
C21_Detect360 ==
    (call.fn = "detect360Video" /\ call.done) =>
        /\ (call.width > 0 /\ call.height > 0) =>
              (call.value.is360Video <=>
                 (18 * call.height <= 10 * call.width
                    /\ 10 * call.width <= 21 * call.height))
        /\ call.value.projection =
              (IF call.value.is360Video THEN "equirectangular" ELSE "null")
        /\ (call.width = 3840 /\ call.height = 1920) => call.value.is360Video
        /\ (call.width = 1920 /\ call.height = 1080) => ~call.value.is360Video
        /\ \A c \in DetectCalls :
              (c.width = call.width /\ c.height = call.height)
                 => detect360Video(c.width, c.height) = call.value

C21_Witness ==
    /\ call.fn = "detect360Video" /\ call.done
    /\ call.width = 9 /\ call.height = 5
    /\ call.value = [is360Video |-> TRUE, projection |-> "equirectangular"]

\* C22: when no call fails, every object of the returned page whose stored
\* key is the filePath of a FileRecord carries the fields of such a record,
\* for every limit, prefix and page.
C22_ListMergesByKey ==
    [][\A prefix \in Prefixes, limit \in (1..ListFiles) \cup {DefaultLimit},
          pageToken \in 0..1 :
         (ListPageRequest(prefix, limit, pageToken, 0) /\ dbConfigured)
            => \A n \in 1..Len(resp'.out.files) :
                 LET entry == resp'.out.files[n]
                 IN (\E f \in 1..Len(files) : files[f].filePath = entry.name)
                       => /\ entry.id \in 1..Len(files)
                          /\ files[entry.id].filePath = entry.name
                          /\ entry.processingStatus = files[entry.id].processingStatus
                          /\ entry.viewCount = files[entry.id].viewCount
                          /\ entry.availableQualities
                                = AvailableQualities(files[entry.id])]_vars

\* C23: when a job for a row and a quality is completed, the row's stored
\* quality mapping has an entry for that quality whose key is the job's
\* output key.
C23_CompletedJobHasEntry ==
    \A j \in 1..Len(jobs) :
        jobs[j].status = "completed" =>
            LET levels == files[jobs[j].fileId].qualityLevels
            IN /\ HasEntry(levels, jobs[j].targetQuality)
               /\ levels.entries[jobs[j].targetQuality] = jobs[j].outputPath

C25_CosmeticFailuresComplete ==
    [][\A f \in 1..Len(files) :
         /\ (vidTask[f] \in {"extract", "thumbnail"} /\ vidTask'[f] # vidTask[f])
               => /\ vidTask'[f] \in {"thumbnail", "markCompleted"}
                  /\ files'[f].processingStatus = files[f].processingStatus
         /\ (vidTask'[f] = "catchFind" /\ vidTask[f] # "catchFind")
               => vidTask[f] \in VidTryPcs
         /\ (files'[f].processingStatus = "failed"
               /\ files[f].processingStatus # "failed")
               => vidTask[f] = "catchUpdate"
         /\ (vidTask[f] = "markCompleted" /\ vidTask'[f] = "done")
               => files'[f].processingStatus = "completed"]_vars

C25_Witness ==
    \E f \in 1..Len(files) :
        /\ vidTask[f] = "done"
        /\ files[f].processingStatus = "completed"
        /\ files[f].duration = 0
        /\ files[f].thumbnailPath = NoKey
        /\ ~Exists(ThumbnailPath(files[f].filePath))

\* C26: an error raised in a background task does not leave the task: the
\* promise of no processVideoInBackground and of no processTranscodingJob
\* rejects.
C26_TaskErrorsCaptured ==
    /\ \A f \in 1..Len(files) : vidTask[f] # "escaped"
    /\ \A j \in 1..Len(jobs) : jobTask[j].pc # "escaped"

\* C27: generate-upload-url accepts a declared content type exactly when
\* isValidVideoFile of the direct upload accepts it.
C27_SameTypeValidation ==
    (call.fn = "validTypes" /\ call.done)
        => (call.value.presigned <=> call.value.direct)

\* C28: thumbnail generation and transcoding leave the source object as it
\* is, also for a source key with no extension or with a "/" after its last
\* ".": the object stored under a source key keeps the bytes of the upload.
C28_DerivedNeverOverwriteSource ==
    \A o \in objects : o.key \in DerivedSources => o.size = MaxSize

\* C29: once the head of a 200 or 206 stream response is written, no later
\* step of the request sends again: the tracking that follows the response
\* never ends in the handler's catch block, whose res.status(500).json is a
\* second send.
C29_OneResponsePerStream ==
    \A t \in 1..Len(tails) : tails[t].pc # "failed"

\* C30: under fairness, every row whose processVideoInBackground was
\* started eventually has processingStatus completed or failed, and every
\* job eventually has status completed or failed.
C30_TasksReachTerminalStatus ==
    /\ \A f \in 1..MaxFiles :
         (f <= Len(files) /\ vidTask[f] # "none")
            ~> (/\ f <= Len(files)
                /\ files[f].processingStatus \in {"completed", "failed"})
    /\ \A j \in 1..PipelineJobs :
         (j <= Len(jobs))
            ~> (j <= Len(jobs) /\ jobs[j].status \in {"completed", "failed"})

====
